---- MODULE Spec2Model ----
(***************************************************************************)
(* A model of the e-commerce customer-satisfaction EDA helper scripts:     *)
(*   scripts/data_loader.py   load_data                                    *)
(*   scripts/eda_pipeline.py  EDA_Pipeline                                 *)
(*   scripts/utils.py         cast_data_types                              *)
(* Each component gets its own specification over the shared variables;    *)
(* the variables of the components a specification does not run stay at   *)
(* their idle values.                                                      *)
(***************************************************************************)
EXTENDS Integers, Sequences, FiniteSets, TLC

VARIABLES
    pc,               \* position of the running call
    stdout,           \* what print() has emitted so far, one entry per line
    raised,           \* the exception that left the call, "none" if none
    returned,         \* the value handed back to the caller, NoValue before
    \* ---- load_data
    data_path,        \* what the file system holds at data_path
    verbose,          \* load_data's verbose parameter
    i,                \* number of datasets.items() entries consumed
    attempts,         \* <<name, file state met>> per loop iteration, in order
    data_frames,      \* load_data's data_frames dict: name -> table
    failed_datasets,  \* load_data's failed_datasets list of (name, message)
    \* ---- EDA_Pipeline
    df,                          \* the caller's table, handed to __init__
    self_df,                     \* self.df, the pipeline's copy
    target_col,                  \* self.target_col
    categorical_threshold,       \* self.categorical_threshold
    high_cardinality_threshold,  \* self.high_cardinality_threshold
    datetime_cols,               \* self.datetime_cols
    numerical_cols,              \* self.numerical_cols
    categorical_cols,            \* self.categorical_cols
    high_cardinality_cols,       \* self.high_cardinality_cols
    calls,                       \* report methods called on the pipeline so far
    sections_run,                \* the sections the current generate_report has entered
    log,                         \* per section run: its name, caller, lines and exception
    aggregates,                  \* the optional aggregations the installed pandas computes
    \* ---- cast_data_types
    cast_df,          \* the caller's table, cast in place
    df_at_call,       \* the caller's table as it was when the call began
    type_mapping,     \* the type_mapping dict, as its items() in order
    before_types,     \* before_types: <<column, dtype>> in column order
    cast_i            \* number of type_mapping.items() entries consumed

commonVars == <<pc, stdout, raised, returned>>
loaderVars == <<data_path, verbose, i, attempts, data_frames, failed_datasets>>
configVars == <<df, target_col, categorical_threshold, high_cardinality_threshold,
                aggregates>>
listVars == <<datetime_cols, numerical_cols, categorical_cols, high_cardinality_cols>>
reportVars == <<calls, sections_run, log>>
edaVars == <<configVars, self_df, listVars, reportVars>>
castVars == <<cast_df, df_at_call, type_mapping, before_types, cast_i>>
vars == <<commonVars, loaderVars, edaVars, castVars>>

NoValue == "NoValue"

(***************************************************************************)
(* Bounds                                                                  *)
(***************************************************************************)
\* At most this many of the nine files are in a state other than
\* "loads with rows" or "absent" in one run of load_data.
MaxIrregular == 2
\* Rows of the tables handed to EDA_Pipeline: 0..MaxRows.
MaxRows == 2
\* Numeric cells are 1..MaxNum.
MaxNum == 2
\* The two thresholds range over 0..MaxThreshold.
MaxThreshold == 2
\* Distinct values of the column whose distribution is reported: 0..MaxDistinct.
MaxDistinct == 6
\* Report methods called on one pipeline.
MaxCalls == 2
\* max_combinations of a multivariate_analysis call ranges over 0..MaxCombinations.
MaxCombinations == 4
\* Entries of a type_mapping: 0..MaxMapping.
MaxMapping == 3
\* Rows of the table whose outliers are counted: 0..MaxOutlierRows.
MaxOutlierRows == 5

(***************************************************************************)
(* data_loader.py                                                          *)
(***************************************************************************)
\* datasets, in declaration (dict insertion) order: <<name, file>>.
datasets ==
    << <<"customers", "olist_customers_dataset.csv">>,
       <<"geolocation", "olist_geolocation_dataset.csv">>,
       <<"order_items", "olist_order_items_dataset.csv">>,
       <<"orders", "olist_orders_dataset.csv">>,
       <<"order_payments", "olist_order_payments_dataset.csv">>,
       <<"order_reviews", "olist_order_reviews_dataset.csv">>,
       <<"products", "olist_products_dataset.csv">>,
       <<"sellers", "olist_sellers_dataset.csv">>,
       <<"product_category_name_translation",
         "product_category_name_translation.csv">> >>

total_datasets == Len(datasets)

DatasetNames == {datasets[k][1] : k \in 1..total_datasets}

\* What data_path can be on disk.
PathKinds == {"directory", "regular_file", "missing"}

\* What one expected file can be on disk when its turn comes:
\*   rows         a CSV with a header and at least one data row
\*   header_only  a CSV with a header and no data row
\*   absent       no such file
\*   empty        nothing to parse (no columns): read_csv raises EmptyDataError
\*   malformed    read_csv raises ParserError
\*   unreadable   any other exception out of read_csv (permissions, encoding,
\*                a directory of that name, ...)
FileStates == {"rows", "header_only", "absent", "empty", "malformed", "unreadable"}

\* os.path.exists(data_path): true of any existing path, directory or not.
PathExists(kind) == kind # "missing"

\* os.path.exists(os.path.join(data_path, file)): nothing lies below a path
\* that is not a directory.
FileExists(kind, fstate) == kind = "directory" /\ fstate # "absent"

\* The file states the file system can show below a data_path of this kind.
FileStatesUnder(kind) == IF kind = "directory" THEN FileStates ELSE {"absent"}

\* read_csv as a stricter reader would be: a header without rows is an error.
read_csv_rejecting_header_only(fstate) ==
    CASE fstate = "rows"        -> [raises |-> "none", rows |-> 1]
      [] fstate = "header_only" -> [raises |-> "EmptyDataError", rows |-> 0]
      [] fstate = "empty"       -> [raises |-> "EmptyDataError", rows |-> 0]
      [] fstate = "malformed"   -> [raises |-> "ParserError", rows |-> 0]
      [] OTHER                  -> [raises |-> "Exception", rows |-> 0]

\* pd.read_csv(file_path) on an existing file: a table (kept as its row count;
\* 1 stands for any positive number of rows) or the exception it raises.
read_csv(fstate) ==
    CASE fstate = "rows"        -> [raises |-> "none", rows |-> 1]
      [] fstate = "header_only" -> [raises |-> "none", rows |-> 0]
      [] fstate = "empty"       -> [raises |-> "EmptyDataError", rows |-> 0]
      [] fstate = "malformed"   -> [raises |-> "ParserError", rows |-> 0]
      [] OTHER                  -> [raises |-> "Exception", rows |-> 0]

\* str(e) of the exceptions read_csv raises.
ExcText(exc) ==
    CASE exc = "ParserError" -> "Error tokenizing data"
      [] exc = "EmptyDataError" -> "No columns to parse from file"
      [] OTHER -> "Permission denied"

\* The exception, if any, raised inside the try block for one file.
TryBlock(kind, file, fstate) ==
    IF ~FileExists(kind, fstate)
    THEN [raises |-> "FileNotFoundError", text |-> "File not found: " \o file, rows |-> 0]
    ELSE LET r == read_csv(fstate)
         IN  [raises |-> r.raises, text |-> ExcText(r.raises), rows |-> r.rows]

\* The message the matching except clause records for the dataset.
FailureMessage(t) ==
    CASE t.raises = "FileNotFoundError" -> t.text
      [] t.raises = "EmptyDataError"    -> "Empty CSV file"
      [] t.raises = "ParserError"       -> "Parse error - " \o t.text
      [] OTHER                          -> t.text

\* The [ERROR] line the matching except clause prints.
ErrorLine(name, file, t) ==
    CASE t.raises = "FileNotFoundError" -> <<"ERROR", name, "File not found - " \o file>>
      [] t.raises = "EmptyDataError"    -> <<"ERROR", name, "Empty CSV file">>
      [] t.raises = "ParserError"       -> <<"ERROR", name, "Failed to parse CSV - " \o t.text>>
      [] OTHER                          -> <<"ERROR", name, t.text>>

\* RecordFailure with the FileNotFoundError clause forgetting its append.
RecordFailure_skipping_missing(failed, name, t) ==
    IF t.raises = "FileNotFoundError"
    THEN failed
    ELSE Append(failed, <<name, FailureMessage(t)>>)

\* failed_datasets.append(...) of the except clauses.
RecordFailure(failed, name, t) == Append(failed, <<name, FailureMessage(t)>>)

\* Number of attempts that met a file neither loading with rows nor absent.
Irregular(att) ==
    Cardinality({k \in 1..Len(att) : att[k][2] \notin {"rows", "absent"}})

\* The summary block printed when verbose.
SummaryLines(frames, failed) ==
    <<  <<"Loading complete", Cardinality(DOMAIN frames), total_datasets>> >>
    \o (IF failed # <<>>
        THEN << <<"failed to load", Len(failed)>> >>
             \o [k \in 1..Len(failed) |-> <<"-", failed[k][1], failed[k][2]>>]
        ELSE <<>>)

\* load_data returning the failures beside the tables.
ReturnValue_with_failures(frames, failed) ==
    [data_frames |-> frames, failed_datasets |-> failed]

\* What load_data returns: the data_frames dict and nothing else.
ReturnValue(frames, failed) == [data_frames |-> frames]

\* The variables of EDA_Pipeline while no pipeline exists.
EdaIdle ==
    /\ df = <<>> /\ self_df = <<>> /\ target_col = "None"
    /\ categorical_threshold = 0 /\ high_cardinality_threshold = 0
    /\ datetime_cols = <<>> /\ numerical_cols = <<>>
    /\ categorical_cols = <<>> /\ high_cardinality_cols = <<>>
    /\ calls = 0 /\ sections_run = <<>> /\ log = <<>> /\ aggregates = {}

\* The variables of cast_data_types while no cast runs.
CastIdle ==
    /\ cast_df = <<>> /\ df_at_call = <<>> /\ type_mapping = <<>>
    /\ before_types = <<>> /\ cast_i = 0

LoaderInit ==
    /\ pc = "load_data" /\ stdout = <<>> /\ raised = "none" /\ returned = NoValue
    /\ EdaIdle
    /\ CastIdle
    /\ data_path \in PathKinds
    /\ verbose \in BOOLEAN
    /\ i = 0
    /\ attempts = <<>>
    /\ data_frames = <<>>
    /\ failed_datasets = <<>>

\* if not os.path.exists(data_path): raise FileNotFoundError
CheckPath ==
    /\ pc = "load_data"
    /\ IF PathExists(data_path)
       THEN pc' = "loop" /\ raised' = raised
       ELSE pc' = "raised" /\ raised' = "FileNotFoundError"
    /\ UNCHANGED <<stdout, returned, loaderVars, edaVars, castVars>>

\* One iteration of the for loop over datasets.items().
LoadOne ==
    /\ pc = "loop"
    /\ i < total_datasets
    /\ \E fstate \in FileStatesUnder(data_path) :
         LET name == datasets[i + 1][1]
             file == datasets[i + 1][2]
             t    == TryBlock(data_path, file, fstate)
         IN  /\ attempts' = Append(attempts, <<name, fstate>>)
             /\ Irregular(attempts') <= MaxIrregular
             /\ i' = i + 1
             /\ IF t.raises = "none"
                THEN /\ data_frames' = (name :> [rows |-> t.rows]) @@ data_frames
                     /\ failed_datasets' = failed_datasets
                     /\ stdout' = IF verbose
                                  THEN Append(stdout, <<"Loaded", name, i + 1, t.rows>>)
                                  ELSE stdout
                ELSE /\ data_frames' = data_frames
                     /\ failed_datasets' = RecordFailure(failed_datasets, name, t)
                     /\ stdout' = IF verbose
                                  THEN Append(stdout, ErrorLine(name, file, t))
                                  ELSE stdout
    /\ UNCHANGED <<pc, raised, returned, data_path, verbose, edaVars, castVars>>

\* The summary and the return statement.
FinishLoad ==
    /\ pc = "loop"
    /\ i = total_datasets
    /\ stdout' = IF verbose
                 THEN stdout \o SummaryLines(data_frames, failed_datasets)
                 ELSE stdout
    /\ returned' = ReturnValue(data_frames, failed_datasets)
    /\ pc' = "returned"
    /\ UNCHANGED <<raised, loaderVars, edaVars, castVars>>

LoaderNext == CheckPath \/ LoadOne \/ FinishLoad

SpecLoader == LoaderInit /\ [][LoaderNext]_vars

(***************************************************************************)
(* Tables                                                                  *)
(* A table is a sequence of columns [name, dtype, cells, categories], the  *)
(* cells of every column as long as the table has rows; categories is the  *)
(* ordered category list of a category column.  A cell is a record so that *)
(* cells of all kinds compare.                                             *)
(***************************************************************************)
Null    == [t |-> "null", s |-> "", n |-> 0]     \* NaN / None / NaT
Str(x)  == [t |-> "str",  s |-> x,  n |-> 0]
Num(x)  == [t |-> "num",  s |-> "", n |-> x]
Date(x) == [t |-> "date", s |-> "", n |-> x]     \* midnight of day x
DateTime(x, clock) == [t |-> "date", s |-> clock, n |-> x]  \* day x at the clock time

Dtypes == {"object", "string", "category", "int64", "float64", "int32", "datetime64[ns]"}

ColumnNames == <<"a", "b">>

\* The cells a column of each dtype is drawn from, in a fixed order.
CellDomain(dtype) ==
    CASE dtype \in {"object", "string"} ->
            <<Null, Str("2024-01-01"), Str("2024-01-02"), Str("abc")>>
      [] dtype = "category" -> <<Null, Str("2024-01-01"), Str("abc")>>
      [] dtype \in {"int64", "int32"} -> [k \in 1..MaxNum |-> Num(k)]
      [] dtype = "float64" -> <<Null>> \o [k \in 1..MaxNum |-> Num(k)]
      [] OTHER -> <<Null, Date(1), Date(2)>>

\* The distinct non-null values among the first n cells, in order of first
\* appearance.
RECURSIVE FirstAppearance(_, _)
FirstAppearance(cells, n) ==
    IF n = 0 THEN <<>>
    ELSE LET prev == FirstAppearance(cells, n - 1)
         IN  IF cells[n] = Null \/ \E k \in 1..Len(prev) : prev[k] = cells[n]
             THEN prev
             ELSE Append(prev, cells[n])

\* The non-decreasing index sequences of length n over lo..m.
RECURSIVE NonDecreasing(_, _, _)
NonDecreasing(n, lo, m) ==
    IF n = 0 THEN {<<>>}
    ELSE UNION {{<<k>> \o rest : rest \in NonDecreasing(n - 1, k, m)} : k \in lo..m}

\* The columns of one name, dtype and length (cell order within a column
\* plays no part in what the pipeline computes from it).
ColumnsOf(name, dtype, nrows) ==
    LET dom == CellDomain(dtype)
    IN  {[name |-> name, dtype |-> dtype,
          cells |-> [k \in 1..nrows |-> dom[idx[k]]],
          categories |-> IF dtype = "category"
                         THEN FirstAppearance([k \in 1..nrows |-> dom[idx[k]]], nrows)
                         ELSE <<>>] :
            idx \in NonDecreasing(nrows, 1, Len(dom))}

\* All tables of ncols columns and nrows rows.
RECURSIVE TablesOf(_, _)
TablesOf(ncols, nrows) ==
    IF ncols = 0 THEN {<<>>}
    ELSE {Append(t, c) : t \in TablesOf(ncols - 1, nrows),
                         c \in UNION {ColumnsOf(ColumnNames[ncols], d, nrows) : d \in Dtypes}}

Tables == UNION {TablesOf(nc, nr) : nc \in 1..Len(ColumnNames), nr \in 0..MaxRows}

columns(table) == [k \in 1..Len(table) |-> table[k].name]
ColumnSet(table) == {table[k].name : k \in 1..Len(table)}
Col(table, name) == table[CHOOSE k \in 1..Len(table) : table[k].name = name]
len(table) == IF table = <<>> THEN 0 ELSE Len(table[1].cells)

InSeq(x, seq) == \E k \in 1..Len(seq) : seq[k] = x

(***************************************************************************)
(* eda_pipeline.py: EDA_Pipeline.__init__                                  *)
(***************************************************************************)
\* pd.api.types.is_datetime64_any_dtype
is_datetime64_any_dtype(col) == col.dtype = "datetime64[ns]"

\* df[col].dtype == 'object' or pd.api.types.is_string_dtype(df[col])
is_object_or_string(col) == col.dtype = "object" \/ col.dtype = "string"

\* pd.api.types.is_categorical_dtype
is_categorical_dtype(col) == col.dtype = "category"

\* df[col].dtype in ['int64', 'float64'], and select_dtypes(include=[...]).
is_int64_or_float64(col) == col.dtype \in {"int64", "float64"}

\* The parse of one date string: its day number, -1 when it is no date.
ParseDate(text) ==
    CASE text = "2024-01-01" -> 1
      [] text = "2024-01-02" -> 2
      [] OTHER -> -1

\* to_datetime as it would be with errors='coerce': what does not parse
\* becomes NaT and nothing is raised.
to_datetime_coercing(col) ==
    [raises |-> FALSE,
     col |-> [col EXCEPT
                !.dtype = "datetime64[ns]",
                !.cells = [k \in 1..Len(col.cells) |->
                             IF col.cells[k] = Null \/ ParseDate(col.cells[k].s) < 0
                             THEN Null
                             ELSE Date(ParseDate(col.cells[k].s))]]]

\* pd.to_datetime(series, errors='raise') on a text column: it raises when a
\* non-null value does not parse, else every value becomes a timestamp.
to_datetime(col) ==
    IF \E k \in 1..Len(col.cells) :
          col.cells[k] # Null /\ ParseDate(col.cells[k].s) < 0
    THEN [raises |-> TRUE, col |-> col]
    ELSE [raises |-> FALSE,
          col |-> [col EXCEPT
                     !.dtype = "datetime64[ns]",
                     !.cells = [k \in 1..Len(col.cells) |->
                                  IF col.cells[k] = Null THEN Null
                                  ELSE Date(ParseDate(col.cells[k].s))]]]

\* df[col].nunique(): the distinct non-null values.
nunique(col) == Cardinality({col.cells[k] : k \in 1..Len(col.cells)} \ {Null})

\* The loop "Auto-detect datetime columns" over the first n columns of the
\* caller's table: the datetime_cols list and self.df it leaves.
RECURSIVE DetectDatetime(_, _)
DetectDatetime(table, n) ==
    IF n = 0 THEN [datetime_cols |-> <<>>, self_df |-> table]
    ELSE LET prev == DetectDatetime(table, n - 1)
             col  == table[n]
         IN  IF is_datetime64_any_dtype(col)
             THEN [prev EXCEPT !.datetime_cols = Append(@, col.name)]
             ELSE IF is_object_or_string(col) /\ ~to_datetime(col).raises
                  THEN [datetime_cols |-> Append(prev.datetime_cols, col.name),
                        self_df |-> [prev.self_df EXCEPT ![n] = to_datetime(col).col]]
                  ELSE prev

\* numerical_cols: select_dtypes(int64, float64), the target removed, the
\* datetime columns removed.
DetectNumerical(table, target, dt_cols) ==
    LET selected    == SelectSeq(columns(table),
                                 LAMBDA c : is_int64_or_float64(Col(table, c)))
        no_target   == SelectSeq(selected, LAMBDA c : c # target)
    IN  SelectSeq(no_target, LAMBDA c : ~InSeq(c, dt_cols))

\* Whether the categorical loop takes the column as a categorical candidate.
is_categorical_candidate(col, cat_threshold) ==
    LET n_unique == nunique(col)
        is_low_cardinality_numeric == is_int64_or_float64(col) /\ n_unique <= cat_threshold
    IN  is_categorical_dtype(col) \/ is_object_or_string(col) \/ is_low_cardinality_numeric

\* Whether a candidate goes to categorical_cols (else high_cardinality_cols).
is_low_cardinality(col, high_threshold) == nunique(col) <= high_threshold

\* The loop "Detect categorical" over the first n columns.
RECURSIVE DetectCategorical(_, _, _, _, _, _)
DetectCategorical(table, n, target, dt_cols, cat_threshold, high_threshold) ==
    IF n = 0
    THEN [categorical_cols |-> <<>>, high_cardinality_cols |-> <<>>, lines |-> <<>>]
    ELSE LET prev == DetectCategorical(table, n - 1, target, dt_cols,
                                       cat_threshold, high_threshold)
             col  == table[n]
         IN  IF col.name = target \/ InSeq(col.name, dt_cols)
             THEN prev
             ELSE IF is_categorical_candidate(col, cat_threshold)
                  THEN IF is_low_cardinality(col, high_threshold)
                       THEN [prev EXCEPT
                               !.categorical_cols = Append(@, col.name),
                               !.lines = Append(@, <<"added to categorical",
                                                     col.name, nunique(col)>>)]
                       ELSE [prev EXCEPT
                               !.high_cardinality_cols = Append(@, col.name),
                               !.lines = Append(@, <<"is high cardinality",
                                                     col.name, nunique(col)>>)]
                  ELSE prev

\* The detection summary __init__ prints.
DetectionSummary(num, cat, dt, high, target) ==
    << <<"Detected numerical", Len(num)>>, <<"Detected categorical", Len(cat)>>,
       <<"Detected datetime", Len(dt)>>, <<"Detected high-cardinality", Len(high)>> >>
    \o (IF target # "None" THEN << <<"Target column", target>> >> ELSE <<>>)
    \o (IF cat # <<>>  THEN << <<"Categorical", cat>> >> ELSE <<>>)
    \o (IF num # <<>>  THEN << <<"Numerical", num>> >> ELSE <<>>)
    \o (IF dt # <<>>   THEN << <<"Datetime", dt>> >> ELSE <<>>)
    \o (IF high # <<>> THEN << <<"High Cardinality", high>> >> ELSE <<>>)

\* EDA_Pipeline(df, target_col, categorical_threshold, high_cardinality_threshold)
Construct ==
    /\ pc = "new"
    /\ LET dt  == DetectDatetime(df, Len(df))
           num == DetectNumerical(df, target_col, dt.datetime_cols)
           cat == DetectCategorical(df, Len(df), target_col, dt.datetime_cols,
                                    categorical_threshold, high_cardinality_threshold)
       IN  /\ self_df' = dt.self_df
           /\ datetime_cols' = dt.datetime_cols
           /\ numerical_cols' = num
           /\ categorical_cols' = cat.categorical_cols
           /\ high_cardinality_cols' = cat.high_cardinality_cols
           /\ stdout' = stdout \o cat.lines
                        \o DetectionSummary(num, cat.categorical_cols, dt.datetime_cols,
                                            cat.high_cardinality_cols, target_col)
    /\ pc' = "constructed"
    /\ UNCHANGED <<raised, returned, loaderVars, castVars, configVars, reportVars>>

(***************************************************************************)
(* eda_pipeline.py: the report sections                                    *)
(* A section is the set of outcomes it can have on the pipeline as it      *)
(* stands: the lines it prints and the exception that ends it ("none" when *)
(* it returns self).  The statistics are kept as exact counts; the chart   *)
(* calls draw and print nothing and are left out, but for the hour chart   *)
(* of univariate_datetime, which is listed among the lines as "chart".     *)
(* Where the outcome depends on the pandas release, the release installed  *)
(* (aggregates) settles it.                                                *)
(***************************************************************************)
Ok(lines) == {[lines |-> lines, raises |-> "none"]}
Raises(lines, exc) == {[lines |-> lines, raises |-> exc]}

\* first; second: the second runs only if the first did not raise.
Then(first, second) ==
    {IF a.raises # "none" THEN a
     ELSE [lines |-> a.lines \o b.lines, raises |-> b.raises] :
        a \in first, b \in second}

\* A sequence of <<key, count>> pairs in descending order of count, equal
\* counts keeping their order (the sorts stay stable at these sizes).
RECURSIVE SortByCountDesc(_)
SortByCountDesc(pairs) ==
    IF pairs = <<>> THEN <<>>
    ELSE LET n      == Len(pairs)
             sorted == SortByCountDesc(SubSeq(pairs, 1, n - 1))
             e      == pairs[n]
             p      == Cardinality({k \in 1..Len(sorted) : sorted[k][2] >= e[2]})
         IN  SubSeq(sorted, 1, p) \o <<e>> \o SubSeq(sorted, p + 1, Len(sorted))

CountOf(col, v) == Cardinality({k \in 1..Len(col.cells) : col.cells[k] = v})

\* series.value_counts(): one <<value, count>> entry per distinct non-null
\* value (per category, observed or not, for a category column), most
\* frequent first.
value_counts(col) ==
    LET keys == IF col.dtype = "category" THEN col.categories
                ELSE FirstAppearance(col.cells, Len(col.cells))
    IN  SortByCountDesc([k \in 1..Len(keys) |-> <<keys[k], CountOf(col, keys[k])>>])

\* A head that keeps the whole series.
head_unbounded(seq, n) == seq

\* series.head(n)
head(seq, n) == SubSeq(seq, 1, IF Len(seq) < n THEN Len(seq) ELSE n)

\* The n of value_counts().head(n) in univariate_categorical.
TopN == 5

\* series.isnull().sum()
isnull_sum(col) == CountOf(col, Null)

Row(table, r) == [k \in 1..Len(table) |-> table[k].cells[r]]

\* df.duplicated().sum(): the rows equal to an earlier row.
duplicated_sum(table) ==
    Cardinality({r \in 1..len(table) : \E q \in 1..(r - 1) : Row(table, q) = Row(table, r)})

data_overview ==
    LET missing == SelectSeq([k \in 1..Len(self_df) |->
                                 <<self_df[k].name, isnull_sum(self_df[k])>>],
                             LAMBDA e : e[2] > 0)
    IN  Ok(<< <<"DATA OVERVIEW">>,
              <<"Dataset Shape", len(self_df), Len(self_df)>>,
              IF missing # <<>>
              THEN <<"Missing", SortByCountDesc(missing), len(self_df)>>
              ELSE <<"No missing values found!">>,
              <<"Total duplicates", duplicated_sum(self_df), len(self_df)>> >>)

\* series.dropna(): the non-null cells, in row order.
dropna(col) == SelectSeq(col.cells, LAMBDA cell : cell # Null)

Min(S) == CHOOSE x \in S : \A y \in S : x <= y
Max(S) == CHOOSE x \in S : \A y \in S : x >= y

\* The minutes a clock time lies after midnight.
MinuteOfDay(clock) ==
    CASE clock = "00:30" -> 30
      [] clock = "13:00" -> 780
      [] OTHER -> 0

\* A timestamp in minutes, and its .dt.hour.
Stamp(cell) == cell.n * 1440 + MinuteOfDay(cell.s)
HourOf(cell) == MinuteOfDay(cell.s) \div 60

\* (df_temp.dt.hour != 0).any()
AnyHourNonZero(df_temp) == \E k \in 1..Len(df_temp) : HourOf(df_temp[k]) # 0

HourCount(df_temp, h) == Cardinality({k \in 1..Len(df_temp) : HourOf(df_temp[k]) = h})

\* df_temp.dt.hour.value_counts().sort_index(): <<hour, count>> by hour.
hour_value_counts(df_temp) ==
    SelectSeq([h \in 1..24 |-> <<h - 1, HourCount(df_temp, h - 1)>>],
              LAMBDA e : e[2] > 0)

\* df_temp.dt.hour.mode()[0]: the most frequent hour, the earliest of equals.
hour_mode(df_temp) ==
    Min({h \in 0..23 : \A g \in 0..23 : HourCount(df_temp, g) <= HourCount(df_temp, h)})

\* One column of univariate_datetime: earliest, latest, span in days, missing;
\* the hour chart; the temporal statistics with the most common hour.
DatetimeEntry(name) ==
    LET col     == Col(self_df, name)
        df_temp == dropna(col)
        stamps  == {Stamp(df_temp[k]) : k \in 1..Len(df_temp)}
        at(m)   == CHOOSE cell \in {df_temp[k] : k \in 1..Len(df_temp)} : Stamp(cell) = m
    IN  Ok(<< IF stamps = {}
              THEN <<"DATETIME", name, Null, Null, Null, isnull_sum(col)>>
              ELSE <<"DATETIME", name, at(Min(stamps)), at(Max(stamps)),
                     Num((Max(stamps) - Min(stamps)) \div 1440), isnull_sum(col)>>,
              IF AnyHourNonZero(df_temp)
              THEN <<"chart: Distribution by Hour", name, hour_value_counts(df_temp)>>
              ELSE <<"chart: No Time Component", name>>,
              <<"Temporal Component Statistics", name>> >>
           \o (IF AnyHourNonZero(df_temp)
               THEN << <<"Most common hour", name, hour_mode(df_temp)>> >>
               ELSE <<>>))

RECURSIVE DatetimeLoop(_)
DatetimeLoop(n) ==
    IF n = 0 THEN Ok(<<>>)
    ELSE Then(DatetimeLoop(n - 1), DatetimeEntry(datetime_cols[n]))

univariate_datetime ==
    IF datetime_cols = <<>> THEN Ok(<<>>)
    ELSE Then(Ok(<< <<"UNIVARIATE ANALYSIS - DATETIME FEATURES">> >>),
              DatetimeLoop(Len(datetime_cols)))

\* The non-null values of a numeric column in ascending order.
RECURSIVE SortedValues(_, _)
SortedValues(cells, n) ==
    IF n = 0 THEN <<>>
    ELSE LET prev == SortedValues(cells, n - 1)
         IN  IF cells[n] = Null THEN prev
             ELSE LET v == cells[n].n
                      p == Cardinality({k \in 1..Len(prev) : prev[k] <= v})
                  IN  SubSeq(prev, 1, p) \o <<v>> \o SubSeq(prev, p + 1, Len(prev))

\* Four times series.quantile(q / 4), by linear interpolation between the
\* two nearest order statistics (xs ascending, not empty).
Quantile4(xs, q) ==
    LET h  == (Len(xs) - 1) * q
        lo == h \div 4
        r  == h % 4
    IN  IF r = 0 THEN 4 * xs[lo + 1]
        ELSE 4 * xs[lo + 1] + r * (xs[lo + 2] - xs[lo + 1])

\* An outlier count that takes the fences themselves as outliers.
OutlierCount_inclusive(col) ==
    LET xs == SortedValues(col.cells, Len(col.cells))
    IN  IF xs = <<>> THEN 0
        ELSE LET Q1  == Quantile4(xs, 1)
                 Q3  == Quantile4(xs, 3)
                 IQR == Q3 - Q1
             IN  Cardinality({k \in 1..Len(col.cells) :
                    /\ col.cells[k] # Null
                    /\ \/ 8 * col.cells[k].n <= 2 * Q1 - 3 * IQR
                       \/ 8 * col.cells[k].n >= 2 * Q3 + 3 * IQR})

\* len(outliers): the rows below Q1 - 1.5*IQR or above Q3 + 1.5*IQR; with no
\* non-null value the quartiles are NaN and no row compares.
OutlierCount(col) ==
    LET xs == SortedValues(col.cells, Len(col.cells))
    IN  IF xs = <<>> THEN 0
        ELSE LET Q1  == Quantile4(xs, 1)
                 Q3  == Quantile4(xs, 3)
                 IQR == Q3 - Q1
             IN  Cardinality({k \in 1..Len(col.cells) :
                    /\ col.cells[k] # Null
                    /\ \/ 8 * col.cells[k].n < 2 * Q1 - 3 * IQR
                       \/ 8 * col.cells[k].n > 2 * Q3 + 3 * IQR})

\* One column of univariate_numerical; the outlier percentage divides two
\* Python ints, len(outliers) / len(self.df).
NumericalEntry(name) ==
    LET col == Col(self_df, name)
        described == <<"NUMERICAL", name, Len(col.cells) - isnull_sum(col)>>
    IN  IF len(self_df) = 0
        THEN Raises(<<described>>, "ZeroDivisionError")
        ELSE Ok(<<described, <<"Outliers", name, OutlierCount(col), len(self_df)>> >>)

RECURSIVE NumericalLoop(_)
NumericalLoop(n) ==
    IF n = 0 THEN Ok(<<>>)
    ELSE Then(NumericalLoop(n - 1), NumericalEntry(numerical_cols[n]))

univariate_numerical ==
    IF numerical_cols = <<>> THEN Ok(<<>>)
    ELSE Then(Ok(<< <<"UNIVARIATE ANALYSIS - NUMERICAL FEATURES">> >>),
              NumericalLoop(Len(numerical_cols)))

\* One column of the categorical_cols loop: all the value counts.
CategoricalEntry(name) ==
    LET col == Col(self_df, name)
    IN  Ok(<< <<"CATEGORICAL", name, nunique(col)>>,
              <<"Value counts", name, value_counts(col)>>,
              <<"Percentage distribution", name, value_counts(col), len(self_df)>> >>)

\* One column of the high_cardinality_cols loop: the top of the value
\* counts; the cardinality ratio divides two Python ints.
HighCardinalityEntry(name) ==
    LET col == Col(self_df, name)
    IN  IF len(self_df) = 0
        THEN Raises(<< <<"HIGH CARDINALITY", name, nunique(col), len(self_df)>> >>,
                    "ZeroDivisionError")
        ELSE Ok(<< <<"HIGH CARDINALITY", name, nunique(col), len(self_df)>>,
                   <<"Top 5", name, head(value_counts(col), TopN), len(self_df)>> >>)

RECURSIVE CategoricalLoop(_)
CategoricalLoop(n) ==
    IF n = 0 THEN Ok(<<>>)
    ELSE Then(CategoricalLoop(n - 1), CategoricalEntry(categorical_cols[n]))

RECURSIVE HighCardinalityLoop(_)
HighCardinalityLoop(n) ==
    IF n = 0 THEN Ok(<<>>)
    ELSE Then(HighCardinalityLoop(n - 1), HighCardinalityEntry(high_cardinality_cols[n]))

univariate_categorical ==
    IF categorical_cols = <<>> /\ high_cardinality_cols = <<>> THEN Ok(<<>>)
    ELSE Then(Then(Ok(<< <<"UNIVARIATE ANALYSIS - CATEGORICAL FEATURES">> >>),
                   CategoricalLoop(Len(categorical_cols))),
              IF high_cardinality_cols = <<>> THEN Ok(<<>>)
              ELSE Then(Ok(<< <<"UNIVARIATE ANALYSIS - HIGH CARDINALITY COLUMNS">> >>),
                        HighCardinalityLoop(Len(high_cardinality_cols))))

\* The dtype of the target column as the pipeline's table holds it.
TargetDtype == Col(self_df, target_col).dtype

\* The aggregations that some pandas releases compute and others reject: the
\* group mean of a datetime target, and the statistics of a text target over
\* no value at all.  The installed release settles them for a whole run.
OptionalAggregations == {"datetime", "no_value"}

\* Whether a statistic of the target column can be taken: "yes" for a numeric
\* target; for a text or category target "no" once there is a value to
\* aggregate, and open (either) when there is none; a datetime target has no
\* correlation, and whether it has group means depends on the pandas release.
Aggregates(statistic, has_data) ==
    CASE TargetDtype \in {"int64", "float64", "int32"} -> {"yes"}
      [] TargetDtype = "datetime64[ns]" /\ statistic # "corr" ->
            IF "datetime" \in aggregates THEN {"yes"} ELSE {"no"}
      [] OTHER -> IF has_data \/ "no_value" \notin aggregates THEN {"no"} ELSE {"yes"}

\* A statistic of the target: its line, or the error pandas raises.
Aggregated(statistic, has_data, line) ==
    UNION {IF a = "yes" THEN Ok(<<line>>) ELSE Raises(<<>>, "TypeError") :
              a \in Aggregates(statistic, has_data)}

\* The rows in which all the named columns are non-null.
CompleteRows(names) ==
    {r \in 1..len(self_df) : \A k \in 1..Len(names) : Col(self_df, names[k]).cells[r] # Null}

\* One column of bivariate_datetime_analysis. self.df[[col, target]] with
\* col = target has two columns of one name, and df_temp[col] is then a
\* DataFrame, which has no .dt accessor.
BivariateDatetimeEntry(name) ==
    IF name = target_col
    THEN Raises(<< <<"DATETIME VS TARGET", name>> >>, "AttributeError")
    ELSE Then(Ok(<< <<"DATETIME VS TARGET", name>> >>),
              Aggregated("mean", CompleteRows(<<name, target_col>>) # {},
                         <<"Temporal Statistics", name,
                           Cardinality(CompleteRows(<<name, target_col>>))>>))

RECURSIVE BivariateDatetimeLoop(_)
BivariateDatetimeLoop(n) ==
    IF n = 0 THEN Ok(<<>>)
    ELSE Then(BivariateDatetimeLoop(n - 1), BivariateDatetimeEntry(datetime_cols[n]))

bivariate_datetime_analysis ==
    IF target_col = "None" \/ datetime_cols = <<>> THEN Ok(<<>>)
    ELSE Then(Ok(<< <<"BIVARIATE ANALYSIS - DATETIME VS", target_col>> >>),
              BivariateDatetimeLoop(Len(datetime_cols)))

\* self.df[[col, target]].corr().iloc[0, 1] for one numerical column.
NumericalVsTarget(name) ==
    Aggregated("corr", len(self_df) > 0, <<"Correlation", name, target_col>>)

RECURSIVE NumericalVsTargetLoop(_)
NumericalVsTargetLoop(n) ==
    IF n = 0 THEN Ok(<<>>)
    ELSE Then(NumericalVsTargetLoop(n - 1), NumericalVsTarget(numerical_cols[n]))

\* self.df.groupby(col)[target].agg([...]) for one categorical column.
CategoricalVsTarget(name) ==
    Aggregated("agg", CompleteRows(<<name>>) # {},
               <<"Grouped", name, target_col, nunique(Col(self_df, name))>>)

RECURSIVE CategoricalVsTargetLoop(_)
CategoricalVsTargetLoop(n) ==
    IF n = 0 THEN Ok(<<>>)
    ELSE Then(CategoricalVsTargetLoop(n - 1), CategoricalVsTarget(categorical_cols[n]))

bivariate_analysis ==
    IF target_col = "None"
    THEN Ok(<< <<"No target column specified. Skipping bivariate analysis.">> >>)
    ELSE Then(Then(Ok(<< <<"BIVARIATE ANALYSIS - FEATURES VS", target_col>> >>),
                   IF numerical_cols = <<>> THEN Ok(<<>>)
                   ELSE Then(Ok(<< <<"NUMERICAL FEATURES VS TARGET">> >>),
                             NumericalVsTargetLoop(Len(numerical_cols)))),
              IF categorical_cols = <<>> THEN Ok(<<>>)
              ELSE Then(Ok(<< <<"CATEGORICAL FEATURES VS TARGET">> >>),
                        CategoricalVsTargetLoop(Len(categorical_cols))))

\* cols_for_corr = lst; cols_for_corr.append(x): one list under two names.
alias_then_append(lst, x) == [cols_for_corr |-> Append(lst, x), lst |-> Append(lst, x)]

\* cols_for_corr = lst.copy(); cols_for_corr.append(x): the copy grows
\* and lst does not.
copy_then_append(lst, x) == [cols_for_corr |-> Append(lst, x), lst |-> lst]

\* "Include target if numerical": cols_for_corr, and self.numerical_cols
\* as the statements leave it.
CorrelationColumns ==
    IF target_col # "None" /\ TargetDtype \in {"int64", "float64"}
    THEN copy_then_append(numerical_cols, target_col)
    ELSE [cols_for_corr |-> numerical_cols, lst |-> numerical_cols]

\* self.numerical_cols after a run of the section.
NumericalColsAfter(section) ==
    IF section = "correlation_matrix" /\ Len(numerical_cols) >= 2
    THEN CorrelationColumns.lst
    ELSE numerical_cols

correlation_matrix ==
    IF Len(numerical_cols) < 2
    THEN Ok(<< <<"Not enough numerical columns for correlation matrix">> >>)
    ELSE LET cols_for_corr == CorrelationColumns.cols_for_corr
         IN  Ok(<< <<"CORRELATION MATRIX", cols_for_corr>> >>
                \o (IF InSeq(target_col, cols_for_corr)
                    THEN << <<"Top correlations with", target_col>> >>
                    ELSE <<>>))

\* The pairs of the nested loops over cat_cols_sample, in loop order.
RECURSIVE PairsFrom(_, _, _)
PairsFrom(sample, a, b) ==
    IF a >= Len(sample) THEN <<>>
    ELSE IF b > Len(sample) THEN PairsFrom(sample, a + 1, a + 2)
    ELSE << <<sample[a], sample[b]>> >> \o PairsFrom(sample, a, b + 1)

\* The groupby([col1, col2])[target].mean().unstack() of one pair.
Interaction(pair) ==
    Aggregated("mean", CompleteRows(pair) # {}, <<"Interaction", pair[1], pair[2]>>)

RECURSIVE InteractionLoop(_, _)
InteractionLoop(pairs, n) ==
    IF n = 0 THEN Ok(<<>>)
    ELSE Then(InteractionLoop(pairs, n - 1), Interaction(pairs[n]))

\* The default of multivariate_analysis's max_combinations.
DefaultMaxCombinations == 5

multivariate_analysis(max_combinations) ==
    IF target_col = "None" \/ Len(categorical_cols) < 2
    THEN Ok(<< <<"Need target column and at least 2 categorical features">> >>)
    ELSE LET cat_cols_sample == head(categorical_cols, max_combinations)
             pairs == PairsFrom(cat_cols_sample, 1, 2)
         IN  Then(Ok(<< <<"MULTIVARIATE ANALYSIS - INTERACTION EFFECTS">> >>),
                  InteractionLoop(pairs, Len(pairs)))

(***************************************************************************)
(* eda_pipeline.py: calls on a constructed pipeline                        *)
(***************************************************************************)
\* A report method called by the script that owns the pipeline.
DirectCall(section, args, outcomes) ==
    /\ pc = "constructed"
    /\ \E o \in outcomes :
         /\ stdout' = stdout \o o.lines
         /\ log' = Append(log, [section |-> section, via |-> "caller", args |-> args,
                                lines |-> o.lines, raises |-> o.raises])
         /\ IF o.raises = "none"
            THEN pc' = pc /\ raised' = raised /\ returned' = "self"
            ELSE pc' = "raised" /\ raised' = o.raises /\ returned' = returned
    /\ calls' = calls + 1
    /\ numerical_cols' = NumericalColsAfter(section)
    /\ UNCHANGED <<loaderVars, castVars, configVars, self_df, sections_run,
                   datetime_cols, categorical_cols, high_cardinality_cols>>

\* One section called from generate_report.
ReportStep(here, section, outcomes, next) ==
    /\ pc = here
    /\ sections_run' = Append(sections_run, section)
    /\ \E o \in outcomes :
         /\ stdout' = stdout \o o.lines
         /\ log' = Append(log, [section |-> section, via |-> "generate_report",
                                args |-> IF section = "multivariate_analysis"
                                         THEN <<DefaultMaxCombinations>> ELSE <<>>,
                                lines |-> o.lines, raises |-> o.raises])
         /\ IF o.raises = "none"
            THEN pc' = next /\ raised' = raised
            ELSE pc' = "gr_raised" /\ raised' = o.raises
    /\ numerical_cols' = NumericalColsAfter(section)
    /\ UNCHANGED <<returned, loaderVars, castVars, configVars, self_df, calls,
                   datetime_cols, categorical_cols, high_cardinality_cols>>

GenerateReport ==
    /\ pc = "constructed"
    /\ calls < MaxCalls
    /\ pc' = "gr_data_overview"
    /\ stdout' = Append(stdout, <<"AUTOMATED EDA REPORT">>)
    /\ sections_run' = <<>>
    /\ calls' = calls + 1
    /\ UNCHANGED <<raised, returned, loaderVars, castVars, configVars, self_df, listVars, log>>

GR_DataOverview ==
    ReportStep("gr_data_overview", "data_overview", data_overview,
               "gr_univariate_datetime")

GR_UnivariateDatetime ==
    ReportStep("gr_univariate_datetime", "univariate_datetime", univariate_datetime,
               "gr_univariate_numerical")

GR_UnivariateNumerical ==
    ReportStep("gr_univariate_numerical", "univariate_numerical", univariate_numerical,
               "gr_univariate_categorical")

GR_UnivariateCategorical ==
    ReportStep("gr_univariate_categorical", "univariate_categorical",
               univariate_categorical, "gr_correlation_matrix")

\* correlation_matrix, then "if self.target_col:".
GR_CorrelationMatrix ==
    ReportStep("gr_correlation_matrix", "correlation_matrix", correlation_matrix,
               IF target_col # "None" THEN "gr_bivariate_datetime" ELSE "gr_completed")

GR_BivariateDatetime ==
    ReportStep("gr_bivariate_datetime", "bivariate_datetime_analysis",
               bivariate_datetime_analysis, "gr_bivariate")

GR_Bivariate ==
    ReportStep("gr_bivariate", "bivariate_analysis", bivariate_analysis,
               "gr_multivariate")

GR_Multivariate ==
    ReportStep("gr_multivariate", "multivariate_analysis",
               multivariate_analysis(DefaultMaxCombinations), "gr_completed")

GR_Completed ==
    /\ pc = "gr_completed"
    /\ stdout' = Append(stdout, <<"EDA REPORT COMPLETED">>)
    /\ returned' = "self"
    /\ pc' = "constructed"
    /\ UNCHANGED <<raised, loaderVars, castVars, configVars, self_df, listVars, reportVars>>

UnivariateCategorical ==
    /\ calls < MaxCalls
    /\ DirectCall("univariate_categorical", <<>>, univariate_categorical)

DataOverview ==
    /\ calls < MaxCalls
    /\ DirectCall("data_overview", <<>>, data_overview)

UnivariateDatetime ==
    /\ calls < MaxCalls
    /\ DirectCall("univariate_datetime", <<>>, univariate_datetime)

UnivariateNumerical ==
    /\ calls < MaxCalls
    /\ DirectCall("univariate_numerical", <<>>, univariate_numerical)

BivariateDatetimeAnalysis ==
    /\ calls < MaxCalls
    /\ DirectCall("bivariate_datetime_analysis", <<>>, bivariate_datetime_analysis)

BivariateAnalysis ==
    /\ calls < MaxCalls
    /\ DirectCall("bivariate_analysis", <<>>, bivariate_analysis)

CorrelationMatrix ==
    /\ calls < MaxCalls
    /\ DirectCall("correlation_matrix", <<>>, correlation_matrix)

MultivariateAnalysis ==
    /\ calls < MaxCalls
    /\ \E max_combinations \in 0..MaxCombinations :
         DirectCall("multivariate_analysis", <<max_combinations>>,
                    multivariate_analysis(max_combinations))

\* The variables of load_data while no load runs.
LoaderIdle ==
    /\ data_path = "missing" /\ verbose = FALSE /\ i = 0
    /\ attempts = <<>> /\ data_frames = <<>> /\ failed_datasets = <<>>

\* The pipeline's inputs: a table and a configuration.
ConfigInit(tables, MaxHigh) ==
    /\ df \in tables
    /\ target_col \in {"None"} \cup ColumnSet(df)
    /\ categorical_threshold \in 0..MaxThreshold
    /\ high_cardinality_threshold \in 0..MaxHigh
    /\ self_df = <<>>
    /\ datetime_cols = <<>> /\ numerical_cols = <<>>
    /\ categorical_cols = <<>> /\ high_cardinality_cols = <<>>
    /\ calls = 0 /\ sections_run = <<>> /\ log = <<>>

ClassifyInit ==
    /\ pc = "new" /\ stdout = <<>> /\ raised = "none" /\ returned = NoValue
    /\ LoaderIdle
    /\ CastIdle
    /\ ConfigInit(Tables, MaxThreshold)
    /\ aggregates = {}

ClassifyNext == Construct

SpecClassify == ClassifyInit /\ [][ClassifyNext]_vars

(***************************************************************************)
(* One-column tables with up to MaxDistinct distinct values, each met once *)
(* or twice, for the reported distributions.                               *)
(***************************************************************************)
Multiplicities == {1, 2}

\* The k-th value of a column of the dtype.
ValueOf(dtype, k) ==
    IF dtype \in {"int64", "float64"} THEN Num(k) ELSE Str("v" \o ToString(k))

\* The second and later occurrences of the first n values.
RECURSIVE Repeats(_, _, _)
Repeats(dtype, counts, n) ==
    IF n = 0 THEN <<>>
    ELSE Repeats(dtype, counts, n - 1)
         \o [j \in 1..(counts[n] - 1) |-> ValueOf(dtype, n)]

DistributionColumns ==
    {[name |-> ColumnNames[1], dtype |-> dtype,
      cells |-> [j \in 1..k |-> ValueOf(dtype, j)] \o Repeats(dtype, counts, k)
                \o [j \in 1..nulls |-> Null],
      categories |-> IF dtype = "category"
                     THEN [j \in 1..(k + unused) |-> ValueOf(dtype, j)]
                     ELSE <<>>] :
        dtype \in {"object", "category", "int64", "float64"},
        k \in 0..MaxDistinct, nulls \in 0..1, unused \in 0..1,
        counts \in [1..MaxDistinct -> Multiplicities]} 

DistributionTables ==
    {<<c>> : c \in {d \in DistributionColumns :
                       /\ d.dtype = "int64" => \A j \in 1..Len(d.cells) : d.cells[j] # Null
                       /\ d.dtype = "category" \/ d.categories = <<>>}}

CategoricalInit ==
    /\ pc = "new" /\ stdout = <<>> /\ raised = "none" /\ returned = NoValue
    /\ LoaderIdle
    /\ CastIdle
    /\ ConfigInit(DistributionTables, MaxDistinct)
    /\ aggregates = {}

CategoricalNext == Construct \/ UnivariateCategorical

SpecCategorical == CategoricalInit /\ [][CategoricalNext]_vars

ReportInit ==
    /\ pc = "new" /\ stdout = <<>> /\ raised = "none" /\ returned = NoValue
    /\ LoaderIdle
    /\ CastIdle
    /\ ConfigInit(Tables, MaxThreshold)
    /\ aggregates \in SUBSET OptionalAggregations

ReportNext ==
    \/ Construct
    \/ GenerateReport
    \/ GR_DataOverview
    \/ GR_UnivariateDatetime
    \/ GR_UnivariateNumerical
    \/ GR_UnivariateCategorical
    \/ GR_CorrelationMatrix
    \/ GR_BivariateDatetime
    \/ GR_Bivariate
    \/ GR_Multivariate
    \/ GR_Completed

SpecReport == ReportInit /\ [][ReportNext]_vars

(***************************************************************************)
(* One-row tables of up to three columns, for the report methods called in *)
(* any order.                                                              *)
(***************************************************************************)
SectionColumnNames == <<"a", "b", "c">>

SectionCell(dtype) ==
    CASE dtype = "int64" -> Num(1)
      [] dtype = "object" -> Str("abc")
      [] OTHER -> Date(1)

SectionTables ==
    UNION {{[k \in 1..nc |-> [name |-> SectionColumnNames[k], dtype |-> dtypes[k],
                              cells |-> <<SectionCell(dtypes[k])>>,
                              categories |-> <<>>]] :
               dtypes \in [1..nc -> {"int64", "object", "datetime64[ns]"}]} :
           nc \in 1..Len(SectionColumnNames)}

SectionsInit ==
    /\ pc = "new" /\ stdout = <<>> /\ raised = "none" /\ returned = NoValue
    /\ LoaderIdle
    /\ CastIdle
    /\ ConfigInit(SectionTables, MaxThreshold)
    /\ aggregates \in SUBSET OptionalAggregations

SectionsNext ==
    \/ Construct
    \/ DataOverview
    \/ UnivariateDatetime
    \/ UnivariateNumerical
    \/ UnivariateCategorical
    \/ BivariateDatetimeAnalysis
    \/ BivariateAnalysis
    \/ CorrelationMatrix
    \/ MultivariateAnalysis
    \/ GenerateReport
    \/ GR_DataOverview
    \/ GR_UnivariateDatetime
    \/ GR_UnivariateNumerical
    \/ GR_UnivariateCategorical
    \/ GR_CorrelationMatrix
    \/ GR_BivariateDatetime
    \/ GR_Bivariate
    \/ GR_Multivariate
    \/ GR_Completed

SpecSections == SectionsInit /\ [][SectionsNext]_vars

(***************************************************************************)
(* One-column numeric tables of up to MaxOutlierRows rows, for the outlier *)
(* count: values around the fences of the quartiles 10 and 20.             *)
(***************************************************************************)
OutlierValues == <<-6, -5, 10, 20, 34, 35, 36>>

\* A column of n values and m nulls; a column with a null is float64.
OutlierColumns(n, m) ==
    {[name |-> ColumnNames[1],
      dtype |-> IF m = 0 THEN "int64" ELSE "float64",
      cells |-> [k \in 1..n |-> Num(OutlierValues[idx[k]])] \o [k \in 1..m |-> Null],
      categories |-> <<>>] :
        idx \in NonDecreasing(n, 1, Len(OutlierValues))}

OutlierTables ==
    {<<c>> : c \in UNION {UNION {OutlierColumns(n, m) : m \in 0..(MaxOutlierRows - n)} :
                             n \in 0..MaxOutlierRows}}

OutliersInit ==
    /\ pc = "new" /\ stdout = <<>> /\ raised = "none" /\ returned = NoValue
    /\ LoaderIdle
    /\ CastIdle
    /\ ConfigInit(OutlierTables, MaxThreshold)
    /\ aggregates = {}

OutliersNext == Construct \/ UnivariateNumerical

SpecOutliers == OutliersInit /\ [][OutliersNext]_vars

(***************************************************************************)
(* Two-row tables of up to five columns with one or two distinct values    *)
(* each, for the pairs of multivariate_analysis.  No column is a datetime  *)
(* and none is empty, so no optional aggregation is met.                   *)
(***************************************************************************)
PairColumnNames == <<"a", "b", "c", "d", "e">>

\* The dtype and the two cells of a column.
PairColumnKinds ==
    {<<"object", <<Str("x"), Str("x")>> >>, <<"object", <<Str("x"), Str("y")>> >>,
     <<"int64", <<Num(1), Num(1)>> >>}

PairTables ==
    UNION {{[k \in 1..nc |-> [name |-> PairColumnNames[k], dtype |-> kinds[k][1],
                              cells |-> kinds[k][2], categories |-> <<>>]] :
               kinds \in [1..nc -> PairColumnKinds]} :
           nc \in 2..Len(PairColumnNames)}

MultivariateInit ==
    /\ pc = "new" /\ stdout = <<>> /\ raised = "none" /\ returned = NoValue
    /\ LoaderIdle
    /\ CastIdle
    /\ ConfigInit(PairTables, MaxThreshold)
    /\ aggregates = {}

MultivariateNext == Construct \/ MultivariateAnalysis

SpecMultivariate == MultivariateInit /\ [][MultivariateNext]_vars

(***************************************************************************)
(* One-column datetime tables of up to MaxRows rows: midnights, times      *)
(* within hour 0 and times of a later hour.                                *)
(***************************************************************************)
HourCells ==
    <<Null, Date(1), Date(2), DateTime(1, "00:30"), DateTime(1, "13:00")>>

HourTables ==
    UNION {{<< [name |-> ColumnNames[1], dtype |-> "datetime64[ns]",
                cells |-> [k \in 1..nr |-> HourCells[idx[k]]],
                categories |-> <<>>] >> :
               idx \in NonDecreasing(nr, 1, Len(HourCells))} :
           nr \in 0..MaxRows}

HoursInit ==
    /\ pc = "new" /\ stdout = <<>> /\ raised = "none" /\ returned = NoValue
    /\ LoaderIdle
    /\ CastIdle
    /\ ConfigInit(HourTables, MaxThreshold)
    /\ aggregates = {}

HoursNext == Construct \/ UnivariateDatetime

SpecHours == HoursInit /\ [][HoursNext]_vars

(***************************************************************************)
(* utils.py: cast_data_types                                               *)
(* The caller's table has the columns CastColumnNames, one row each; the   *)
(* mapping names up to MaxMapping of them, or a column the table lacks.    *)
(***************************************************************************)
CastColumnNames == <<"a", "b", "c">>

\* The keys a type_mapping can hold: the table's columns and one it lacks.
MappingKeys == {CastColumnNames[k] : k \in 1..Len(CastColumnNames)} \cup {"missing"}

\* The types a type_mapping can declare; "bogus" is no type pandas knows.
DeclaredTypes == {"datetime", "int64", "str", "bogus"}

\* The dtype and the value of a column of the caller's table.
CastColumnKinds ==
    {<<"object", Str("2024-01-01")>>, <<"object", Str("abc")>>,
     <<"int64", Num(1)>>, <<"float64", Num(1)>>, <<"float64", Null>>}

CastTables ==
    {[k \in 1..Len(CastColumnNames) |->
         [name |-> CastColumnNames[k], dtype |-> kinds[k][1],
          cells |-> <<kinds[k][2]>>, categories |-> <<>>]] :
        kinds \in [1..Len(CastColumnNames) -> CastColumnKinds]}

\* The items() of the dicts of n entries: <<column, dtype>> pairs, no column twice.
RECURSIVE MappingsOf(_)
MappingsOf(n) ==
    IF n = 0 THEN {<<>>}
    ELSE UNION {{Append(m, <<c, t>>) :
                    c \in MappingKeys \ {m[k][1] : k \in 1..(n - 1)},
                    t \in DeclaredTypes} :
                m \in MappingsOf(n - 1)}

Mappings == UNION {MappingsOf(n) : n \in 0..MaxMapping}

\* df.dtypes.to_dict().items()
dtypes(table) == [k \in 1..Len(table) |-> <<table[k].name, table[k].dtype>>]

\* int(text): the integer a string spells, -1 when it spells none.
ParseInt(text) ==
    CASE text = "1" -> 1
      [] text = "2" -> 2
      [] OTHER -> -1

\* str(value) of a cell of a column of the dtype.
FormatCell(cell, dtype) ==
    CASE cell = Null -> "nan"
      [] cell.t = "str" -> cell.s
      [] dtype = "float64" -> ToString(cell.n) \o ".0"
      [] OTHER -> ToString(cell.n)

\* An astype that hands the column back when it cannot cast it.
astype_ignoring_errors(col, dtype) == [raises |-> "none", col |-> col]

\* series.astype(dtype): the cast column, or the exception.
astype(col, dtype) ==
    CASE dtype = "int64" ->
            IF \E k \in 1..Len(col.cells) :
                  \/ col.cells[k] = Null
                  \/ col.cells[k].t = "str" /\ ParseInt(col.cells[k].s) < 0
            THEN [raises |-> "ValueError", col |-> col]
            ELSE [raises |-> "none",
                  col |-> [col EXCEPT
                             !.dtype = "int64",
                             !.cells = [k \in 1..Len(col.cells) |->
                                          IF col.cells[k].t = "str"
                                          THEN Num(ParseInt(col.cells[k].s))
                                          ELSE col.cells[k]]]]
      [] dtype = "str" ->
            [raises |-> "none",
             col |-> [col EXCEPT
                        !.dtype = "object",
                        !.cells = [k \in 1..Len(col.cells) |->
                                     Str(FormatCell(col.cells[k], col.dtype))]]]
      [] OTHER -> [raises |-> "TypeError", col |-> col]

\* pd.to_datetime(series): text is parsed, all or nothing; a number counts
\* nanoseconds from the epoch, whose day is day 0 here.
pd_to_datetime(col) ==
    IF col.dtype = "object"
    THEN LET parsed == to_datetime(col)
         IN  [raises |-> IF parsed.raises THEN "ValueError" ELSE "none",
              col |-> parsed.col]
    ELSE [raises |-> "none",
          col |-> [col EXCEPT
                     !.dtype = "datetime64[ns]",
                     !.cells = [k \in 1..Len(col.cells) |->
                                  IF col.cells[k] = Null THEN Null ELSE Date(0)]]]

\* The right-hand side of the assignment in the loop.
CastColumnTo(col, dtype) ==
    IF dtype = "datetime" THEN pd_to_datetime(col) ELSE astype(col, dtype)

\* An assignment that lands in a private copy: the caller's table stays.
SetColumn_on_copy(table, name, col) == table

\* df[column] = series, on the table the caller handed over.
SetColumn(table, name, col) ==
    [k \in 1..Len(table) |-> IF table[k].name = name THEN col ELSE table[k]]

\* The two listings printed after the loop.
TypeReport(before, after) ==
    << <<"Data Types Before:">> >> \o before
    \o << <<"Data Types After:">> >> \o after

CastInit ==
    /\ pc = "cast_data_types" /\ stdout = <<>> /\ raised = "none" /\ returned = NoValue
    /\ LoaderIdle
    /\ EdaIdle
    /\ cast_df \in CastTables
    /\ df_at_call = cast_df
    /\ type_mapping \in Mappings
    /\ before_types = <<>>
    /\ cast_i = 0

\* before_types = df.dtypes.to_dict()
CastBegin ==
    /\ pc = "cast_data_types"
    /\ before_types' = dtypes(cast_df)
    /\ pc' = "cast_loop"
    /\ UNCHANGED <<stdout, raised, returned, loaderVars, edaVars,
                   cast_df, df_at_call, type_mapping, cast_i>>

\* One iteration of "for column, dtype in type_mapping.items()".
CastColumn ==
    /\ pc = "cast_loop"
    /\ cast_i < Len(type_mapping)
    /\ cast_i' = cast_i + 1
    /\ LET column == type_mapping[cast_i + 1][1]
           dtype  == type_mapping[cast_i + 1][2]
       IN  IF column \notin ColumnSet(cast_df)
           THEN pc' = "cast_raised" /\ raised' = "KeyError" /\ cast_df' = cast_df
           ELSE LET cast == CastColumnTo(Col(cast_df, column), dtype)
                IN  IF cast.raises # "none"
                    THEN /\ pc' = "cast_raised" /\ raised' = cast.raises
                         /\ cast_df' = cast_df
                    ELSE /\ pc' = pc /\ raised' = raised
                         /\ cast_df' = SetColumn(cast_df, column, cast.col)
    /\ UNCHANGED <<stdout, returned, loaderVars, edaVars,
                   df_at_call, type_mapping, before_types>>

\* after_types and the two listings; the function returns None.
CastReport ==
    /\ pc = "cast_loop"
    /\ cast_i = Len(type_mapping)
    /\ stdout' = stdout \o TypeReport(before_types, dtypes(cast_df))
    /\ returned' = "None"
    /\ pc' = "cast_returned"
    /\ UNCHANGED <<raised, loaderVars, edaVars, castVars>>

CastNext == CastBegin \/ CastColumn \/ CastReport

SpecCast == CastInit /\ [][CastNext]_vars

(***************************************************************************)
(* Properties of load_data                                                 *)
(***************************************************************************)
IndexOf(name) == (CHOOSE k \in 1..total_datasets : datasets[k][1] = name)

\* The names the failure list holds, in order.
FailedNames == [k \in 1..Len(failed_datasets) |-> failed_datasets[k][1]]

\* The failure kinds of the specification, read off the recorded message.
FailureKind(entry) ==
    CASE entry[2] = "File not found: " \o datasets[IndexOf(entry[1])][2] -> "MissingFile"
      [] entry[2] = "Empty CSV file" -> "EmptyOrMalformed"
      [] entry[2] = "Parse error - " \o ExcText("ParserError") -> "EmptyOrMalformed"
      [] OTHER -> "Unspecified"

\* Number of entries of the failure list for a name.
FailureCount(name) ==
    Cardinality({k \in 1..Len(failed_datasets) : failed_datasets[k][1] = name})

AbsentCount ==
    Cardinality({k \in 1..Len(attempts) : attempts[k][2] = "absent"})

\* The positions of the datasets that failed, ascending.
RECURSIVE FailedPositions(_)
FailedPositions(n) ==
    IF n = 0 THEN <<>>
    ELSE LET rest == FailedPositions(n - 1)
         IN  IF datasets[n][1] \in DOMAIN data_frames THEN rest ELSE Append(rest, n)

\* C1: on an existing directory load_data never raises, attempts the nine
\* dataset names once each in declaration order whatever failed before, and
\* leaves every attempted name in exactly one of data_frames and
\* failed_datasets; with k files absent and the rest loading it ends with
\* 9 - k tables and k failures, all recorded as missing files.
C1_CollectNeverRaise ==
    data_path = "directory" =>
        /\ raised = "none" /\ pc # "raised"
        /\ Len(attempts) = i
        /\ \A k \in 1..i : attempts[k][1] = datasets[k][1]
        /\ pc = "returned" => i = total_datasets
        /\ \A k \in 1..total_datasets :
             LET name == datasets[k][1]
             IN  IF k <= i
                 THEN \/ name \in DOMAIN data_frames /\ FailureCount(name) = 0
                      \/ name \notin DOMAIN data_frames /\ FailureCount(name) = 1
                 ELSE name \notin DOMAIN data_frames /\ FailureCount(name) = 0
        /\ (pc = "returned" /\ \A k \in 1..i : attempts[k][2] \in {"rows", "absent"}) =>
             /\ Cardinality(DOMAIN data_frames) = total_datasets - AbsentCount
             /\ Len(failed_datasets) = AbsentCount
             /\ \A k \in 1..Len(failed_datasets) :
                  FailureKind(failed_datasets[k]) = "MissingFile"

\* C1 witness: a finished run over a directory holding 7 of the 9 files.
C1_Witness ==
    /\ pc = "returned" /\ data_path = "directory"
    /\ \A k \in 1..Len(attempts) : attempts[k][2] \in {"rows", "absent"}
    /\ AbsentCount = 2
    /\ Cardinality(DOMAIN data_frames) = 7
    /\ Len(failed_datasets) = 2

\* C2 (as claimed): whenever data_path is not an existing directory the call
\* raises before any file is attempted: nothing loaded, nothing recorded.
C2_FailFastUnlessDirectory ==
    data_path # "directory" =>
        /\ pc \in {"load_data", "raised"}
        /\ attempts = <<>> /\ data_frames = <<>> /\ failed_datasets = <<>>

\* C3 (as claimed): the caller receives the loaded mapping together with the
\* ordered list of (name, failure-kind, message) entries.
C3_ReturnsTablesAndFailures ==
    pc = "returned" =>
        returned = [data_frames |-> data_frames,
                    failed_datasets |->
                        [k \in 1..Len(failed_datasets) |->
                            <<failed_datasets[k][1], FailureKind(failed_datasets[k]),
                              failed_datasets[k][2]>>]]

\* C3 (amended): the caller receives the loaded mapping only, verbose or not;
\* the failures, one (name, message) pair per failed dataset in declaration
\* order, stay in the local list, which the summary prints when verbose and
\* nothing shows when not.
C3_ReturnsTablesOnly ==
    pc = "returned" =>
        /\ returned = [data_frames |-> data_frames]
        /\ FailedNames = [k \in 1..Len(FailedPositions(total_datasets)) |->
                             datasets[FailedPositions(total_datasets)[k]][1]]
        /\ \A k \in 1..Len(failed_datasets) : Len(failed_datasets[k]) = 2
        /\ verbose =>
             \A k \in 1..Len(failed_datasets) :
                \E n \in 1..Len(stdout) :
                    stdout[n] = <<"-", failed_datasets[k][1], failed_datasets[k][2]>>
        /\ ~verbose => stdout = <<>>

\* C3 witness: a quiet run that returned with both tables and failures.
C3_Witness ==
    /\ pc = "returned" /\ ~verbose
    /\ Len(failed_datasets) >= 2 /\ Cardinality(DOMAIN data_frames) >= 2
    /\ failed_datasets[1][1] = "geolocation"

\* The state met for an attempted dataset name.
StateMet(k) == attempts[k][2]

\* C4 (as claimed): every file that exists but parses to zero rows or cannot
\* be parsed is recorded as EmptyOrMalformed and is not loaded.
C4_ZeroRowsRecorded ==
    \A k \in 1..Len(attempts) :
        StateMet(k) \in {"header_only", "empty", "malformed"} =>
            /\ attempts[k][1] \notin DOMAIN data_frames
            /\ \E n \in 1..Len(failed_datasets) :
                  /\ failed_datasets[n][1] = attempts[k][1]
                  /\ FailureKind(failed_datasets[n]) = "EmptyOrMalformed"

\* C4 (amended): a file with nothing to parse or that fails to parse is
\* recorded ("Empty CSV file", "Parse error - ...") and not loaded; a file that
\* parses to zero rows (header only) is loaded as a table of zero rows with no
\* failure recorded; either way the loop goes on to the last dataset.
C4_UnparseableRecorded ==
    /\ \A k \in 1..Len(attempts) :
         LET name == attempts[k][1]
         IN  /\ StateMet(k) \in {"empty", "malformed"} =>
                  /\ name \notin DOMAIN data_frames
                  /\ \E n \in 1..Len(failed_datasets) :
                        /\ failed_datasets[n][1] = name
                        /\ FailureKind(failed_datasets[n]) = "EmptyOrMalformed"
             /\ StateMet(k) = "header_only" =>
                  /\ name \in DOMAIN data_frames
                  /\ data_frames[name].rows = 0
                  /\ FailureCount(name) = 0
    /\ pc = "raised" => attempts = <<>>
    /\ pc = "returned" => Len(attempts) = total_datasets
    /\ (pc = "loop" /\ i < total_datasets) => ENABLED LoadOne

\* C4 witness: a finished run that met an empty and a header-only file and
\* loaded a later one.
C4_Witness ==
    /\ pc = "returned"
    /\ StateMet(1) = "empty" /\ StateMet(2) = "header_only" /\ StateMet(3) = "rows"
    /\ "order_items" \in DOMAIN data_frames

(***************************************************************************)
(* Properties of EDA_Pipeline.__init__                                     *)
(***************************************************************************)
Occurrences(x, seq) == Cardinality({k \in 1..Len(seq) : seq[k] = x})

\* In how many places of the four category lists a column name stands.
ListCount(name) ==
    Occurrences(name, datetime_cols) + Occurrences(name, numerical_cols)
    + Occurrences(name, categorical_cols) + Occurrences(name, high_cardinality_cols)

IsTextColumn(col) == col.dtype \in {"object", "string"}
IsNumericColumn(col) == col.dtype \in {"int64", "float64", "int32"}

AllValuesAreDates(col) ==
    \A k \in 1..Len(col.cells) :
        col.cells[k] = Null \/ ParseDate(col.cells[k].s) > 0

\* C5 (as claimed): after construction every non-target column stands in
\* exactly one of the four category lists.
C5_ExactlyOneList ==
    pc = "constructed" =>
        \A k \in 1..Len(df) :
            df[k].name # target_col => ListCount(df[k].name) = 1

\* C6 (as claimed): after construction a configured target column stands in
\* none of the four category lists, whatever its type.
C6_TargetInNoList ==
    (pc = "constructed" /\ target_col # "None") => ListCount(target_col) = 0

\* The classification the cardinality rule gives a text column.
ByCardinalityRule(col) ==
    IF nunique(col) <= high_cardinality_threshold
    THEN /\ InSeq(col.name, categorical_cols)
         /\ ~InSeq(col.name, high_cardinality_cols)
    ELSE /\ InSeq(col.name, high_cardinality_cols)
         /\ ~InSeq(col.name, categorical_cols)

DatetimeAllOrNothing(classified(_)) ==
    pc = "constructed" =>
        \A k \in 1..Len(df) :
            IsTextColumn(df[k]) =>
               IF AllValuesAreDates(df[k])
               THEN /\ InSeq(df[k].name, datetime_cols)
                    /\ self_df[k].dtype = "datetime64[ns]"
                    /\ \A r \in 1..len(df) :
                         self_df[k].cells[r] =
                            IF df[k].cells[r] = Null THEN Null
                            ELSE Date(ParseDate(df[k].cells[r].s))
               ELSE /\ ~InSeq(df[k].name, datetime_cols)
                    /\ self_df[k] = df[k]
                    /\ ~InSeq(df[k].name, numerical_cols)
                    /\ classified(df[k]) => ByCardinalityRule(df[k])

\* C7 (as claimed): a text column whose non-null values are all dates is
\* classified datetime and stored as dates; one with a value that is no date
\* is never datetime, is stored unchanged, and is classified categorical or
\* high-cardinality by the cardinality rule.
C7_DatetimeAllOrNothing == DatetimeAllOrNothing(LAMBDA col : TRUE)

\* C7 (amended): the same, the classification by the cardinality rule being
\* that of every such column other than the target column, which stands in
\* no category list.
C7_DatetimeAllOrNothingNonTarget ==
    /\ DatetimeAllOrNothing(LAMBDA col : col.name # target_col)
    /\ pc = "constructed" =>
         \A k \in 1..Len(df) :
            (IsTextColumn(df[k]) /\ ~AllValuesAreDates(df[k]) /\ df[k].name = target_col)
                => ListCount(df[k].name) = 0

\* C7 witness: a column of two dates coerced beside a column holding a date
\* and a non-date left as text; neither is the target.
C7_Witness ==
    /\ pc = "constructed" /\ Len(df) = 2 /\ target_col = "None"
    /\ df[1].dtype = "object" /\ df[1].cells = <<Str("2024-01-01"), Str("2024-01-02")>>
    /\ self_df[1].cells = <<Date(1), Date(2)>>
    /\ df[2].dtype = "string" /\ df[2].cells = <<Str("2024-01-01"), Str("abc")>>
    /\ self_df[2] = df[2]
    /\ datetime_cols = <<"a">>
    /\ high_cardinality_threshold = 1 /\ high_cardinality_cols = <<"b">>

\* C8 (as claimed): a numeric column of any width other than the target is in
\* the categorical family when n_unique <= categorical_threshold, and in
\* numerical_cols and in neither categorical list when above it.
C8_NumericByThreshold ==
    pc = "constructed" =>
        \A k \in 1..Len(df) :
            (IsNumericColumn(df[k]) /\ df[k].name # target_col) =>
                IF nunique(df[k]) <= categorical_threshold
                THEN \/ InSeq(df[k].name, categorical_cols)
                     \/ InSeq(df[k].name, high_cardinality_cols)
                ELSE /\ InSeq(df[k].name, numerical_cols)
                     /\ ~InSeq(df[k].name, categorical_cols)
                     /\ ~InSeq(df[k].name, high_cardinality_cols)

(***************************************************************************)
(* Properties of EDA_Pipeline.univariate_categorical                       *)
(***************************************************************************)
\* The report has returned at least once on the constructed pipeline.
Reported == pc = "constructed" /\ calls > 0 /\ raised = "none"

\* The columns the categorical loop of __init__ takes as candidates.
CategoricalFamily ==
    {k \in 1..Len(self_df) :
        /\ self_df[k].name # target_col
        /\ ~InSeq(self_df[k].name, datetime_cols)
        /\ is_categorical_candidate(self_df[k], categorical_threshold)}

\* The distributions printed under the heading for the column.
Distributions(heading, name) ==
    {stdout[k][3] : k \in {j \in 1..Len(stdout) :
                             /\ Len(stdout[j]) >= 3
                             /\ stdout[j][1] = heading
                             /\ stdout[j][2] = name}}

DistinctValues(col) == {col.cells[k] : k \in 1..Len(col.cells)} \ {Null}

\* The values value_counts gives an entry: the distinct non-null values and,
\* for a category column, the categories no row holds.
CountedValues(col) ==
    DistinctValues(col) \cup {col.categories[k] : k \in 1..Len(col.categories)}

Keys(dist) == {dist[k][1] : k \in 1..Len(dist)}

\* Entries with distinct keys and their true counts, most frequent first.
WellCounted(dist, col) ==
    /\ Cardinality(Keys(dist)) = Len(dist)
    /\ \A k \in 1..Len(dist) : dist[k][2] = CountOf(col, dist[k][1])
    /\ \A k \in 1..(Len(dist) - 1) : dist[k][2] >= dist[k + 1][2]

\* No value left out is more frequent than a value kept.
MostFrequent(dist, col, values) ==
    /\ Keys(dist) \subseteq values
    /\ \A v \in values \ Keys(dist) :
         \A k \in 1..Len(dist) : CountOf(col, v) <= dist[k][2]

\* C9 (as stated): for every categorical-family column and every
\* high_cardinality_threshold, n_unique <= threshold implies the column is
\* categorical and its reported distribution has one entry per distinct
\* non-null value; n_unique > threshold implies the column is high-cardinality
\* and its reported distribution has exactly 5 entries, the 5 most frequent
\* values in descending order of count.
C9_ExactlyFiveOrAllDistinct ==
    Reported =>
      \A k \in CategoricalFamily :
        LET col == self_df[k]
        IN  IF nunique(col) <= high_cardinality_threshold
            THEN /\ InSeq(col.name, categorical_cols)
                 /\ Distributions("Value counts", col.name) # {}
                 /\ \A dist \in Distributions("Value counts", col.name) :
                      /\ Len(dist) = nunique(col)
                      /\ Keys(dist) = DistinctValues(col)
                      /\ WellCounted(dist, col)
            ELSE /\ InSeq(col.name, high_cardinality_cols)
                 /\ Distributions("Top 5", col.name) # {}
                 /\ \A dist \in Distributions("Top 5", col.name) :
                      /\ Len(dist) = 5
                      /\ WellCounted(dist, col)
                      /\ MostFrequent(dist, col, DistinctValues(col))

\* C9 (amended): n_unique <= threshold implies the column is categorical and
\* its reported distribution has one entry per distinct non-null value and one
\* zero-count entry per category of a category-typed column that no row holds;
\* n_unique > threshold implies the column is high-cardinality and its
\* reported distribution has the 5 most frequent of those entries in
\* descending order of count, or all of them when there are fewer than 5.
C9_AtMostFiveOrAllCounted ==
    Reported =>
      \A k \in CategoricalFamily :
        LET col == self_df[k]
            m   == Cardinality(CountedValues(col))
        IN  IF nunique(col) <= high_cardinality_threshold
            THEN /\ InSeq(col.name, categorical_cols)
                 /\ Distributions("Value counts", col.name) # {}
                 /\ \A dist \in Distributions("Value counts", col.name) :
                      /\ Keys(dist) = CountedValues(col)
                      /\ WellCounted(dist, col)
            ELSE /\ InSeq(col.name, high_cardinality_cols)
                 /\ Distributions("Top 5", col.name) # {}
                 /\ \A dist \in Distributions("Top 5", col.name) :
                      /\ Len(dist) = IF m < 5 THEN m ELSE 5
                      /\ WellCounted(dist, col)
                      /\ MostFrequent(dist, col, CountedValues(col))

\* A high-cardinality column of more than 5 distinct values, some of them met
\* twice, has been reported with 5 entries.
C9_Witness ==
    /\ Reported
    /\ high_cardinality_cols = <<ColumnNames[1]>>
    /\ nunique(self_df[1]) > 5
    /\ \E dist \in Distributions("Top 5", ColumnNames[1]) :
         /\ Len(dist) = 5
         /\ dist[1][2] > dist[5][2]

(***************************************************************************)
(* Properties of EDA_Pipeline.generate_report                              *)
(***************************************************************************)
SectionOrder ==
    <<"data_overview", "univariate_datetime", "univariate_numerical",
      "univariate_categorical", "correlation_matrix",
      "bivariate_datetime_analysis", "bivariate_analysis", "multivariate_analysis">>

Position(section) == CHOOSE k \in 1..Len(SectionOrder) : SectionOrder[k] = section

\* C10: generate_report runs the sections in one fixed order (overview,
\* univariate datetime, univariate numerical, univariate categorical,
\* correlation, bivariate datetime-vs-target then feature-vs-target,
\* multivariate), each section at most once, never a later section before an
\* earlier one, and for every table and config it reaches the final
\* 'completed' step after the last section.
C10_FixedOrderAndCompletes ==
    /\ \A a, b \in 1..Len(sections_run) :
         a < b => Position(sections_run[a]) < Position(sections_run[b])
    /\ pc = "gr_completed" =>
         sections_run = IF target_col = "None" THEN SubSeq(SectionOrder, 1, 5)
                        ELSE SectionOrder
    /\ pc # "gr_raised"

(***************************************************************************)
(* Properties of EDA_Pipeline.__init__: columns without a value            *)
(***************************************************************************)
HasNoValue(col) == \A k \in 1..Len(col.cells) : col.cells[k] = Null

\* C16: a non-target column with zero non-null values is still classified at
\* construction without error: as categorical when text-typed, as numerical
\* when numeric-typed, never as datetime or high-cardinality, and never in
\* two lists.
C16_EmptyColumnClassified ==
    pc = "constructed" =>
        \A k \in 1..Len(df) :
            (df[k].name # target_col /\ HasNoValue(df[k])) =>
                /\ raised = "none"
                /\ IsTextColumn(df[k]) => InSeq(df[k].name, categorical_cols)
                /\ IsNumericColumn(df[k]) => InSeq(df[k].name, numerical_cols)
                /\ (IsTextColumn(df[k]) \/ IsNumericColumn(df[k])) =>
                       /\ ~InSeq(df[k].name, datetime_cols)
                       /\ ~InSeq(df[k].name, high_cardinality_cols)
                       /\ ListCount(df[k].name) = 1

(***************************************************************************)
(* Properties of the report sections' preconditions                        *)
(***************************************************************************)
\* The sections that name a precondition, and the notice each prints.
SkipNotice(section) ==
    CASE section = "bivariate_analysis" ->
            <<"No target column specified. Skipping bivariate analysis.">>
      [] section = "correlation_matrix" ->
            <<"Not enough numerical columns for correlation matrix">>
      [] section = "multivariate_analysis" ->
            <<"Need target column and at least 2 categorical features">>

GuardedSections == {"bivariate_analysis", "correlation_matrix", "multivariate_analysis"}

PreconditionUnmet(section) ==
    CASE section = "bivariate_analysis" -> target_col = "None"
      [] section = "correlation_matrix" -> Len(numerical_cols) < 2
      [] section = "multivariate_analysis" ->
            target_col = "None" \/ Len(categorical_cols) < 2
      [] OTHER -> FALSE

\* C11: whenever a report section's precondition is unmet (no target column
\* for bivariate or multivariate, fewer than 2 numerical columns for
\* correlation, fewer than 2 categorical columns for multivariate), called
\* directly or through generate_report, the section produces no statistics, a
\* skip notice is emitted for that section, no error is raised, and the
\* remaining sections of the report still run.
C11_SkippedWithNotice ==
    pc # "new" =>
        /\ \A k \in 1..Len(log) :
             PreconditionUnmet(log[k].section) =>
                 /\ log[k].lines = <<SkipNotice(log[k].section)>>
                 /\ log[k].raises = "none"
        /\ pc = "gr_completed" =>
             \A section \in GuardedSections :
                 PreconditionUnmet(section) => InSeq(section, sections_run)

(***************************************************************************)
(* Properties of the report operations' effect on the pipeline             *)
(***************************************************************************)
\* Two runs of one section with the same arguments produced the same.
SameContentEachRun ==
    \A a, b \in 1..Len(log) :
        (log[a].section = log[b].section /\ log[a].args = log[b].args) =>
            /\ log[a].lines = log[b].lines
            /\ log[a].raises = log[b].raises

\* C12: after construction, no sequence of report operations (data_overview,
\* univariate_*, bivariate_*, correlation_matrix, multivariate_analysis,
\* generate_report, in any order and any number of times) changes the
\* category lists, the target column, the two thresholds or the pipeline's
\* table; correlation_matrix does not leave the target column inside
\* numerical_cols, and running the same section twice yields the same
\* section content.
C12_ReportsChangeNothing ==
    /\ [][pc # "new" => UNCHANGED <<listVars, target_col, categorical_threshold,
                                    high_cardinality_threshold, self_df, df>>]_vars
    /\ [](pc # "new" => ~InSeq(target_col, numerical_cols))
    /\ []SameContentEachRun

\* correlation_matrix has run twice on a pipeline with a numeric target, both
\* times listing the target among the correlated columns.
C12_Witness ==
    \E a, b \in 1..Len(log) :
        /\ a < b
        /\ log[a].section = "correlation_matrix"
        /\ log[b].section = "correlation_matrix"
        /\ Len(log[a].lines) = 2
        /\ log[a].lines[2] = <<"Top correlations with", target_col>>
        /\ log[b].lines = log[a].lines

(***************************************************************************)
(* Properties of cast_data_types                                           *)
(***************************************************************************)
\* Whether the table lists the column.
Listed(table, entry) == entry[1] \in ColumnSet(table)

\* The casts that cannot succeed on the table: an unknown column, a type
\* pandas does not know, text that is no date cast to datetime, text that is
\* no integer or a null cast to int64.
CannotCast(table, entry) ==
    \/ ~Listed(table, entry)
    \/ entry[2] \notin {"datetime", "int64", "str"}
    \/ LET col == Col(table, entry[1])
       IN  \E k \in 1..Len(col.cells) :
              \/ /\ entry[2] = "datetime"
                 /\ col.cells[k].t = "str"
                 /\ ParseDate(col.cells[k].s) < 0
              \/ /\ entry[2] = "int64"
                 /\ \/ col.cells[k] = Null
                    \/ col.cells[k].t = "str" /\ ParseInt(col.cells[k].s) < 0

\* The dtype a column has once cast to the declared type.
DtypeOf(declared) ==
    CASE declared = "datetime" -> "datetime64[ns]"
      [] declared = "str" -> "object"
      [] OTHER -> declared

\* Where the heading stands in the output, 0 if nowhere.
LineOf(heading) ==
    IF \E k \in 1..Len(stdout) : stdout[k] = <<heading>>
    THEN CHOOSE k \in 1..Len(stdout) : stdout[k] = <<heading>>
    ELSE 0

\* The <<column, dtype>> lines under "Data Types Before:" and under
\* "Data Types After:".
ReportedBefore ==
    {stdout[k] : k \in (LineOf("Data Types Before:") + 1)..(LineOf("Data Types After:") - 1)}
ReportedAfter ==
    {stdout[k] : k \in (LineOf("Data Types After:") + 1)..Len(stdout)}

\* C13: cast_data_types is fail-fast: if the cast of any one listed column
\* fails (bad value, unknown column, invalid type), the whole call fails with
\* an error at that column, no later column in the mapping is attempted, and
\* no before/after type report is emitted; if no cast fails, the before and
\* after type of every listed column is reported.
C13_FailFast ==
    /\ pc = "cast_loop" => stdout = <<>>
    /\ pc = "cast_raised" =>
         /\ raised # "none" /\ returned = NoValue
         /\ stdout = <<>>
         /\ CannotCast(df_at_call, type_mapping[cast_i])
         /\ \A j \in 1..(cast_i - 1) : ~CannotCast(df_at_call, type_mapping[j])
         /\ \A j \in (cast_i + 1)..Len(type_mapping) :
              Listed(cast_df, type_mapping[j]) =>
                  Col(cast_df, type_mapping[j][1]) = Col(df_at_call, type_mapping[j][1])
    /\ pc = "cast_returned" =>
         /\ raised = "none"
         /\ \A j \in 1..Len(type_mapping) :
              /\ ~CannotCast(df_at_call, type_mapping[j])
              /\ <<type_mapping[j][1], Col(df_at_call, type_mapping[j][1]).dtype>>
                     \in ReportedBefore
              /\ <<type_mapping[j][1], DtypeOf(type_mapping[j][2])>> \in ReportedAfter

\* The second of three casts has failed after the first changed its column.
C13_Witness ==
    /\ pc = "cast_raised"
    /\ Len(type_mapping) = 3
    /\ cast_i = 2
    /\ Listed(cast_df, type_mapping[3])
    /\ cast_df # df_at_call

\* The column as its cast leaves it.
Converted(col, declared) == CastColumnTo(col, declared).col

\* After a failure at the k-th entry: the first k-1 listed columns converted,
\* every other column as it was.
ConvertedUpToFailure ==
    /\ \A j \in 1..(cast_i - 1) :
         Col(cast_df, type_mapping[j][1])
             = Converted(Col(df_at_call, type_mapping[j][1]), type_mapping[j][2])
    /\ \A k \in 1..Len(df_at_call) :
         (\A j \in 1..(cast_i - 1) : type_mapping[j][1] # df_at_call[k].name) =>
             cast_df[k] = df_at_call[k]

\* C18 (as stated): cast_data_types does not roll back on failure: when the
\* cast of the k-th column of the mapping fails, the caller's table is left
\* with the first k-1 listed columns already converted to their declared types
\* and the k-th and all later listed columns in their original types, so the
\* table after a failed call differs from the table before it whenever k > 1.
C18_DiffersWheneverLaterFailure ==
    pc = "cast_raised" =>
        /\ ConvertedUpToFailure
        /\ cast_i > 1 => cast_df # df_at_call

\* C18 (amended): the first k-1 listed columns are left converted and the
\* k-th and all later ones as they were, so the table after a failed call
\* differs from the table before it exactly when one of the first k-1 casts
\* changed its column; a column already of its declared type is cast to an
\* equal column.
C18_DiffersWhenACastChanged ==
    pc = "cast_raised" =>
        /\ ConvertedUpToFailure
        /\ cast_df # df_at_call <=>
             \E j \in 1..(cast_i - 1) :
                 Converted(Col(df_at_call, type_mapping[j][1]), type_mapping[j][2])
                     # Col(df_at_call, type_mapping[j][1])

\* The third cast has failed after two casts that changed their columns.
C18_Witness ==
    /\ pc = "cast_raised"
    /\ cast_i = 3
    /\ \A j \in 1..2 :
         Col(cast_df, type_mapping[j][1]) # Col(df_at_call, type_mapping[j][1])
    /\ Listed(cast_df, type_mapping[3]) =>
         Col(cast_df, type_mapping[3][1]) = Col(df_at_call, type_mapping[3][1])

(***************************************************************************)
(* Properties of the outlier count of univariate_numerical                 *)
(***************************************************************************)
\* The "Outliers" lines printed so far.
OutlierLines ==
    {stdout[k] : k \in {j \in 1..Len(stdout) :
                          Len(stdout[j]) = 4 /\ stdout[j][1] = "Outliers"}}

\* The non-null values of the column, each as often as it occurs.
ValueRows(col) == {k \in 1..Len(col.cells) : col.cells[k] # Null}

\* Whether v lies strictly outside the fences of the quartiles, all given
\* fourfold: 4v < 4*Q1 - 1.5*(4*Q3 - 4*Q1) or 4v > 4*Q3 + 1.5*(4*Q3 - 4*Q1),
\* doubled to stay in the integers.
StrictlyOutside(v4, Q1x4, Q3x4) ==
    \/ 2 * v4 < 2 * Q1x4 - 3 * (Q3x4 - Q1x4)
    \/ 2 * v4 > 2 * Q3x4 + 3 * (Q3x4 - Q1x4)

\* C14: in univariate_numerical, with quartiles Q1 and Q3 and IQR = Q3 - Q1,
\* a row is counted as an outlier if and only if its value is strictly below
\* Q1 - 1.5*IQR or strictly above Q3 + 1.5*IQR: values exactly on a fence and
\* null values are never counted (for Q1=10, Q3=20: 36 is counted, 35 and 34
\* are not), and the outlier count never exceeds the row count.
C14_OutliersStrictlyOutsideFences ==
    \A line \in OutlierLines :
        LET col == Col(self_df, line[2])
            xs  == SortedValues(col.cells, Len(col.cells))
        IN  /\ line[3] <= len(self_df)
            /\ xs = <<>> => line[3] = 0
            /\ xs # <<>> =>
                 /\ line[3] = Cardinality({k \in ValueRows(col) :
                                  StrictlyOutside(4 * col.cells[k].n,
                                                  Quantile4(xs, 1), Quantile4(xs, 3))})
                 /\ (Quantile4(xs, 1) = 40 /\ Quantile4(xs, 3) = 80) =>
                        line[3] = Cardinality({k \in ValueRows(col) :
                                      col.cells[k].n > 35 \/ col.cells[k].n < -5})

\* The outliers of a column with the quartiles 10 and 20, a 36 and a value on
\* the lower fence have been counted: one.
C14_Witness ==
    /\ pc = "constructed"
    /\ \E line \in OutlierLines :
         LET col == Col(self_df, line[2])
             xs  == SortedValues(col.cells, Len(col.cells))
         IN  /\ Len(xs) = 5
             /\ Quantile4(xs, 1) = 40 /\ Quantile4(xs, 3) = 80
             /\ xs[5] = 36 /\ xs[1] = -5
             /\ line[3] = 1

(***************************************************************************)
(* Properties of multivariate_analysis                                     *)
(***************************************************************************)
\* The <<col1, col2>> of the cross-tabs a run printed, in order.
CrossTabs(lines) ==
    LET tabs == SelectSeq(lines, LAMBDA line : line[1] = "Interaction")
    IN  [k \in 1..Len(tabs) |-> <<tabs[k][2], tabs[k][3]>>]

Smaller(x, y) == IF x < y THEN x ELSE y

\* C15: when a target is set and there are at least 2 categorical columns,
\* multivariate_analysis produces exactly one cross-tab for every unordered
\* pair of distinct columns among the first min(max_combinations, number of
\* categorical columns) entries of categorical_cols - C(m,2) cross-tabs in
\* total - with no pair repeated or reversed, no column paired with itself,
\* and no column beyond the first max_combinations or from
\* high_cardinality_cols ever used.
C15_OneCrossTabPerPair ==
    (target_col # "None" /\ Len(categorical_cols) >= 2) =>
        \A r \in 1..Len(log) :
            log[r].section = "multivariate_analysis" =>
                LET m     == Smaller(log[r].args[1], Len(categorical_cols))
                    first == {categorical_cols[k] : k \in 1..m}
                    tabs  == CrossTabs(log[r].lines)
                IN  /\ 2 * Len(tabs) = m * (m - 1)
                    /\ \A x, y \in first :
                         x # y =>
                            Cardinality({k \in 1..Len(tabs) :
                                            {tabs[k][1], tabs[k][2]} = {x, y}}) = 1
                    /\ \A k \in 1..Len(tabs) :
                         /\ tabs[k][1] # tabs[k][2]
                         /\ {tabs[k][1], tabs[k][2]} \subseteq first
                         /\ ~InSeq(tabs[k][1], high_cardinality_cols)
                         /\ ~InSeq(tabs[k][2], high_cardinality_cols)

(***************************************************************************)
(* Properties of the hour breakdown of univariate_datetime                 *)
(***************************************************************************)
\* Whether a run printed, for the column, a line under the heading.
HasLine(lines, heading, name) ==
    \E k \in 1..Len(lines) :
        Len(lines[k]) >= 2 /\ lines[k][1] = heading /\ lines[k][2] = name

\* Whether a non-null value of the column has a time of day other than
\* midnight.
HasTimeOfDay(col) ==
    \E k \in 1..Len(col.cells) :
        col.cells[k] # Null /\ MinuteOfDay(col.cells[k].s) # 0

\* C17: in univariate_datetime, the hour breakdown (and the 'most common
\* hour' line) is produced if and only if at least one non-null value of the
\* column has a time of day other than midnight; a column whose only
\* non-midnight times fall within hour 0 (e.g. 00:30) still gets the hour
\* breakdown, and a column of pure dates gets none.
C17_HourBreakdownIffTimeOfDay ==
    \A r \in 1..Len(log) :
        (log[r].section = "univariate_datetime" /\ log[r].raises = "none") =>
            \A k \in 1..Len(datetime_cols) :
                LET name == datetime_cols[k]
                IN  /\ HasLine(log[r].lines, "chart: Distribution by Hour", name)
                           <=> HasTimeOfDay(Col(self_df, name))
                    /\ HasLine(log[r].lines, "Most common hour", name)
                           <=> HasTimeOfDay(Col(self_df, name))

====
